---- MODULE Spec2Model ----
(***************************************************************************)
(* Vanguard Phase 2: the Verifiable Cognitive Action (VCA) lifecycle and   *)
(* the ledger, modelled from scripts/enhanced_generate_proof.py,           *)
(* scripts/request_confirmation.py, scripts/post_ledger.py and             *)
(* scripts/batch_mint.py.                                                  *)
(*                                                                         *)
(* Persisted state is the proofs/ directory (one JSON document per VCA,    *)
(* one per batch rollup) and ledger.json.  Every command is one atomic     *)
(* action of Spec and SpecLog (the serialized discipline); SpecLog also    *)
(* keeps the outcome of the last command.  SpecConc splits post_to_ledger  *)
(* into its load / append / save steps for two writers.  SpecMint logs     *)
(* construction and posting, SpecEntry posts hand-edited documents,        *)
(* SpecRollup runs one large batch and SpecVerify runs the two proof       *)
(* verifiers, of the generator and of scripts/verify_proof.py, on one      *)
(* call of the external verifier.                                          *)
(*                                                                         *)
(* Numbers: confidence and threshold are percentages held in hundredths    *)
(* (94.3 % is 9430), the fixed-point unit generate_real_proof itself uses. *)
(* Timestamps are whole seconds of a clock that never runs backwards.      *)
(***************************************************************************)
EXTENDS Integers, Sequences, FiniteSets, TLC

VARIABLES
    vca_files,    \* proofs/<vca_id>.json : vca_id -> VCA document
    rollup_files, \* proofs/<batch_id>.json : batch_id -> rollup document
    ledger_file,  \* ledger.json : sequence of ledger entries
    clock,        \* time.gmtime() / time.time(), in whole seconds
    last,         \* the outcome of the command that ran last
    overridden,   \* whether the operator ever answered yes to "Post anyway?"
    wpc,          \* concurrent writers: position inside post_to_ledger
    wvca,         \* concurrent writers: the VCA loaded at line 169
    wledger,      \* concurrent writers: the in-memory ledger of line 180
    wres          \* concurrent writers: outcome once finished

vars == <<vca_files, rollup_files, ledger_file, clock, last, overridden,
          wpc, wvca, wledger, wres>>

----------------------------------------------------------------------------
(* Bounds of the model *)

MaxVcas == 2
MaxLedger == 2
MaxTime == 1
MaxInputs == 2

VcaIds == 1..MaxVcas
Times == 0..MaxTime

(* Values the --confidence / --threshold options (type=float) are given,   *)
(* in hundredths of a percent.                                             *)
ConfidenceArgs == {-100, 9600}
ThresholdArgs == {9200}
IntentArgs == {"Example cognitive action"}

(* What a human may type at an input() prompt; "^C" stands for the         *)
(* keyboard interrupt.  A command's stdin is a finite sequence of these;   *)
(* reading past its end is end-of-file.                                    *)
Keys == {" YES ", "n", "maybe", "^C"}

RECURSIVE SeqsUpTo(_, _)
SeqsUpTo(S, n) ==
    IF n = 0 THEN {<<>>}
    ELSE LET shorter == SeqsUpTo(S, n - 1)
         IN shorter \cup {Append(s, x) : s \in {t \in shorter : Len(t) = n - 1}, x \in S}

Stdins == SeqsUpTo(Keys, MaxInputs)

(* post_to_ledger calls input() at most once *)
PostStdins == SeqsUpTo(Keys, 1)

----------------------------------------------------------------------------
(* Python helpers *)

(* dict.get(key, default) *)
Get(d, k, default) == IF k \in DOMAIN d THEN d[k] ELSE default

(* d[key] = value on a dict *)
Put(d, k, v) == [x \in DOMAIN d \cup {k} |-> IF x = k THEN v ELSE d[x]]

(* str.strip().lower() on the keys of the model *)
StripLower(raw) ==
    CASE raw = " YES " -> "yes"
      [] OTHER -> raw

(* input(): the next line of stdin, the interrupt, or end-of-file *)
ReadLine(stdin) ==
    IF stdin = <<>> THEN [kind |-> "eof", text |-> "", rest |-> <<>>]
    ELSE IF Head(stdin) = "^C" THEN [kind |-> "interrupt", text |-> "", rest |-> Tail(stdin)]
    ELSE [kind |-> "line", text |-> Head(stdin), rest |-> Tail(stdin)]

IsYes(response) == response \in {"y", "yes"}

----------------------------------------------------------------------------
(* scripts/post_ledger.py *)

(* load_vca: the document of proofs/<vca_id>.json, or None *)
VcaExists(files, vca_id) == vca_id \in DOMAIN files

(* Mutant: every run starts from an empty ledger *)
load_ledger_Empty(file) == <<>>

(* load_ledger: the content of ledger.json; an absent file reads as [] *)
load_ledger(file) == file

(* Mutant: the write adds the newest entry to what the file holds *)
save_ledger_Merge(file, ledger) == Append(file, ledger[Len(ledger)])

(* save_ledger: ledger.json is rewritten whole with the in-memory ledger *)
save_ledger(file, ledger) == ledger

(* compute_proof_hash: SHA-256 of the canonical proof, kept symbolic *)
compute_proof_hash(vca) ==
    LET zkp == Get(vca, "zkp", <<>>)
    IN [sha256 |-> Get(zkp, "proof", <<>>)]

RECURSIVE Digits(_)
Digits(n) == IF n < 10 THEN <<n>> ELSE Append(Digits(n \div 10), n % 10)

RECURSIVE ZeroPad(_, _)
ZeroPad(ds, width) == IF Len(ds) >= width THEN ds ELSE ZeroPad(<<0>> \o ds, width)

(* f"tx-{tx_number:06d}" *)
FormatTxId(tx_number) == [prefix |-> "tx-", digits |-> ZeroPad(Digits(tx_number), 6)]

(* Mutant: the counter is the ledger length itself *)
generate_tx_id_OffByOne(ledger) == FormatTxId(Len(ledger))

generate_tx_id(ledger) == FormatTxId(Len(ledger) + 1)

(* Mutant: whatever is not an approval counts as a veto *)
consent_outcome_NoDefault(user_response) ==
    IF user_response = "y" THEN [action |-> "execute", status |-> "executed"]
    ELSE [action |-> "veto", status |-> "vetoed"]

(* lines 70-79: action and status from the raw response *)
consent_outcome(user_response) ==
    IF user_response = "y" THEN [action |-> "execute", status |-> "executed"]
    ELSE IF user_response = "n" THEN [action |-> "veto", status |-> "vetoed"]
    ELSE [action |-> "unknown", status |-> "pending"]

(* Mutant: the verified flag is looked up on the VCA itself, not in zkp *)
create_ledger_entry_FlagFromVca(vca, tx_id, now) ==
    LET consent == Get(vca, "consent", <<>>)
        user_response == Get(consent, "user_response", "unknown")
        action == consent_outcome(user_response).action
        status == consent_outcome(user_response).status
    IN [tx_id |-> tx_id,
        timestamp |-> now,
        action |-> action,
        vca_id |-> vca.vca_id,
        intent |-> vca.intent,
        proof_hash |-> compute_proof_hash(vca),
        human_consent |-> user_response,
        status |-> status,
        cognitive_state |-> Get(vca, "cognitive_state", <<>>),
        metadata |-> [proof_type |-> Get(Get(vca, "zkp", <<>>), "type", "unknown"),
                      verified |-> Get(vca, "verified", FALSE),
                      consent_timestamp |-> Get(consent, "timestamp", -1)]]

create_ledger_entry(vca, tx_id, now) ==
    LET consent == Get(vca, "consent", <<>>)
        user_response == Get(consent, "user_response", "unknown")
        action == consent_outcome(user_response).action
        status == consent_outcome(user_response).status
    IN [tx_id |-> tx_id,
        timestamp |-> now,
        action |-> action,
        vca_id |-> vca.vca_id,
        intent |-> vca.intent,
        proof_hash |-> compute_proof_hash(vca),
        human_consent |-> user_response,
        status |-> status,
        cognitive_state |-> Get(vca, "cognitive_state", <<>>),
        metadata |-> [proof_type |-> Get(Get(vca, "zkp", <<>>), "type", "unknown"),
                      verified |-> Get(Get(vca, "zkp", <<>>), "verified", FALSE),
                      consent_timestamp |-> Get(consent, "timestamp", -1)]]

(* Mutant: the ledger is never searched *)
check_duplicate_Never(ledger, vca_id) == FALSE

check_duplicate(ledger, vca_id) == \E i \in 1..Len(ledger) : ledger[i].vca_id = vca_id

(* Mutant: the reward tiers are applied whatever the status *)
calculate_vgt_reward_IgnoresStatus(entry) ==
    LET cog == Get(entry, "cognitive_state", <<>>)
        confidence == Get(cog, "confidence", 0)
    IN IF confidence >= 9500 THEN 10
       ELSE IF confidence >= 9000 THEN 5
       ELSE 3

(* Mutant: the tier boundaries are strict *)
calculate_vgt_reward_StrictTier(entry) ==
    IF entry.status = "executed"
    THEN LET cog == Get(entry, "cognitive_state", <<>>)
             confidence == Get(cog, "confidence", 0)
         IN IF confidence > 9500 THEN 10
            ELSE IF confidence > 9000 THEN 5
            ELSE 3
    ELSE 0

calculate_vgt_reward(entry) ==
    IF entry.status = "executed"
    THEN LET cog == Get(entry, "cognitive_state", <<>>)
             confidence == Get(cog, "confidence", 0)
         IN IF confidence >= 9500 THEN 10
            ELSE IF confidence >= 9000 THEN 5
            ELSE 3
    ELSE 0

(* Mutant: the consent check is skipped *)
HasConsent_Skipped(vca) == TRUE

(* line 174: 'consent' not in vca *)
HasConsent(vca) == "consent" \in DOMAIN vca

(* lines 193-203: the entry for vca appended to the in-memory ledger *)
AppendEntry(ledger, vca, now) ==
    LET entry == create_ledger_entry(vca, generate_tx_id(ledger), now)
    IN Append(ledger, Put(entry, "vgt_reward", calculate_vgt_reward(entry)))

(* Mutant: the answer to "Post anyway?" is not looked at *)
DuplicateGate_IgnoresAnswer(ledger, vca_id, stdin) ==
    IF ~check_duplicate(ledger, vca_id) THEN "go" ELSE "override"

(* Mutant: a duplicate is refused whatever the operator answers *)
DuplicateGate_AlwaysRefuses(ledger, vca_id, stdin) ==
    IF ~check_duplicate(ledger, vca_id) THEN "go" ELSE "cancelled"

(* lines 183-190: the duplicate prompt; "go" proceeds to the append *)
DuplicateGate(ledger, vca_id, stdin) ==
    IF ~check_duplicate(ledger, vca_id) THEN "go"
    ELSE LET in == ReadLine(stdin)
         IN IF in.kind = "eof" THEN "eof"
            ELSE IF in.kind = "interrupt" THEN "interrupt"
            ELSE IF IsYes(StripLower(in.text)) THEN "override"
            ELSE "cancelled"

(* The exit status of a Python process that dies of an uncaught           *)
(* KeyboardInterrupt: main() of post_ledger.py catches Exception only.     *)
SigintExit == 130

(* post_to_ledger under main(): return code, outcome and the ledger.json   *)
(* it leaves behind.                                                       *)
post_to_ledger(files, file, vca_id, stdin, now) ==
    IF ~VcaExists(files, vca_id)
    THEN [rc |-> 1, outcome |-> "NotFound", ledger |-> file]
    ELSE IF ~HasConsent(files[vca_id])
    THEN [rc |-> 1, outcome |-> "MissingConsent", ledger |-> file]
    ELSE LET ledger == load_ledger(file)
             gate == DuplicateGate(ledger, vca_id, stdin)
         IN CASE gate = "eof" -> [rc |-> 1, outcome |-> "EOFError", ledger |-> file]
              [] gate = "interrupt" ->
                    [rc |-> SigintExit, outcome |-> "KeyboardInterrupt", ledger |-> file]
              [] gate = "cancelled" -> [rc |-> 0, outcome |-> "Cancelled", ledger |-> file]
              [] gate = "override" ->
                    [rc |-> 0, outcome |-> "PostedOverride",
                     ledger |-> save_ledger(file, AppendEntry(ledger, files[vca_id], now))]
              [] OTHER ->
                    [rc |-> 0, outcome |-> "Posted",
                     ledger |-> save_ledger(file, AppendEntry(ledger, files[vca_id], now))]

----------------------------------------------------------------------------
(* scripts/request_confirmation.py *)

(* Mutant: an interrupt at the prompt is taken for a veto *)
RECURSIVE get_consent_InterruptIsVeto(_, _)
get_consent_InterruptIsVeto(stdin, prompts) ==
    LET in == ReadLine(stdin)
        response == StripLower(in.text)
    IN IF in.kind = "eof" THEN [kind |-> "eof", response |-> "", prompts |-> prompts + 1]
       ELSE IF in.kind = "interrupt"
       THEN [kind |-> "answer", response |-> "n", prompts |-> prompts + 1]
       ELSE IF response \in {"y", "yes"}
       THEN [kind |-> "answer", response |-> "y", prompts |-> prompts + 1]
       ELSE IF response \in {"n", "no"}
       THEN [kind |-> "answer", response |-> "n", prompts |-> prompts + 1]
       ELSE get_consent_InterruptIsVeto(in.rest, prompts + 1)

(* Mutant: a line that is neither yes nor no is returned as typed *)
RECURSIVE get_consent_AnyAnswer(_, _)
get_consent_AnyAnswer(stdin, prompts) ==
    LET in == ReadLine(stdin)
        response == StripLower(in.text)
    IN IF in.kind # "line" THEN [kind |-> in.kind, response |-> "", prompts |-> prompts + 1]
       ELSE IF response \in {"y", "yes"}
       THEN [kind |-> "answer", response |-> "y", prompts |-> prompts + 1]
       ELSE IF response \in {"n", "no"}
       THEN [kind |-> "answer", response |-> "n", prompts |-> prompts + 1]
       ELSE [kind |-> "answer", response |-> response, prompts |-> prompts + 1]

(* get_consent: prompts until the answer is y/yes or n/no.  prompts counts *)
(* the "Approve this action?" prompts issued.                              *)
RECURSIVE get_consent(_, _)
get_consent(stdin, prompts) ==
    LET in == ReadLine(stdin)
        response == StripLower(in.text)
    IN IF in.kind # "line" THEN [kind |-> in.kind, response |-> "", prompts |-> prompts + 1]
       ELSE IF response \in {"y", "yes"}
       THEN [kind |-> "answer", response |-> "y", prompts |-> prompts + 1]
       ELSE IF response \in {"n", "no"}
       THEN [kind |-> "answer", response |-> "n", prompts |-> prompts + 1]
       ELSE get_consent(in.rest, prompts + 1)

(* Mutant: the record that is replaced is kept inside the new one *)
update_vca_with_consent_KeepsPrior(vca, response, now) ==
    Put(vca, "consent",
        IF "consent" \in DOMAIN vca
        THEN [haptic_delivered |-> TRUE, user_response |-> response, timestamp |-> now,
              previous |-> vca.consent.user_response]
        ELSE [haptic_delivered |-> TRUE, user_response |-> response, timestamp |-> now])

(* Mutant: recording consent also restamps the VCA itself *)
update_vca_with_consent_Restamps(vca, response, now) ==
    Put(Put(vca, "timestamp", now), "consent",
        [haptic_delivered |-> TRUE, user_response |-> response, timestamp |-> now])

(* update_vca_with_consent: the VCA document with its consent field set *)
update_vca_with_consent(vca, response, now) ==
    Put(vca, "consent",
        [haptic_delivered |-> TRUE, user_response |-> response, timestamp |-> now])

(* Mutant: an existing consent record is never noticed *)
AlreadyConfirmed_Never(vca) == FALSE

(* line 166: 'consent' in vca *)
AlreadyConfirmed(vca) == "consent" \in DOMAIN vca

(* Mutant: an existing consent record is not looked for *)
ReconfirmGate_NoCheck(vca, stdin) == [kind |-> "go", rest |-> stdin]

(* lines 166-176: the re-confirmation prompt on a VCA that has consent *)
ReconfirmGate(vca, stdin) ==
    IF ~AlreadyConfirmed(vca) THEN [kind |-> "go", rest |-> stdin]
    ELSE LET in == ReadLine(stdin)
         IN IF in.kind # "line" THEN [kind |-> in.kind, rest |-> in.rest]
            ELSE IF IsYes(StripLower(in.text)) THEN [kind |-> "go", rest |-> in.rest]
            ELSE [kind |-> "cancelled", rest |-> in.rest]

(* request_confirmation under main(): return code, outcome, the proofs/    *)
(* directory it leaves behind and the number of consent prompts issued.    *)
request_confirmation(files, vca_id, stdin, now) ==
    IF ~VcaExists(files, vca_id)
    THEN [rc |-> 1, outcome |-> "NotFound", files |-> files, prompts |-> 0]
    ELSE LET vca == files[vca_id]
             gate == ReconfirmGate(vca, stdin)
         IN IF gate.kind = "cancelled"
            THEN [rc |-> 0, outcome |-> "Cancelled", files |-> files, prompts |-> 0]
            ELSE IF gate.kind = "interrupt"
            THEN [rc |-> 1, outcome |-> "KeyboardInterrupt", files |-> files, prompts |-> 0]
            ELSE IF gate.kind = "eof"
            THEN [rc |-> 1, outcome |-> "EOFError", files |-> files, prompts |-> 0]
            ELSE LET got == get_consent(gate.rest, 0)
                 IN IF got.kind = "interrupt"
                    THEN [rc |-> 1, outcome |-> "KeyboardInterrupt", files |-> files,
                          prompts |-> got.prompts]
                    ELSE IF got.kind = "eof"
                    THEN [rc |-> 1, outcome |-> "EOFError", files |-> files,
                          prompts |-> got.prompts]
                    ELSE [rc |-> 0, outcome |-> "Recorded",
                          files |-> Put(files, vca_id,
                                        update_vca_with_consent(vca, got.response, now)),
                          prompts |-> got.prompts]

----------------------------------------------------------------------------
(* scripts/enhanced_generate_proof.py *)

(* What the external toolchain does in one construction attempt: whether   *)
(* witness generation and proving succeed, whether the verification key    *)
(* exists, and the exit status and output of "snarkjs groth16 verify".     *)
(* A stage that is never reached has no outcome of its own: its fields are *)
(* fixed, so that each run of the toolchain is listed once.                *)
Toolchains ==
    {t \in [witness : BOOLEAN, prove : BOOLEAN, vkey : BOOLEAN,
            verify_exit : {0, 1}, verify_says_ok : BOOLEAN] :
        /\ ~t.witness => ~t.prove
        /\ ~t.prove => ~t.vkey
        /\ ~t.vkey => (t.verify_exit = 1 /\ ~t.verify_says_ok)}

(* Mutant: a zero exit status alone counts as a verified proof *)
verify_proof_ExitCodeOnly(tool) == tool.verify_exit = 0

(* verify_proof of the generator, past the key check: run_command raises   *)
(* on a non-zero exit and the bare except turns that into False.           *)
verify_proof(tool) ==
    IF tool.verify_exit # 0 THEN FALSE ELSE tool.verify_says_ok

create_vca(vca_id, confidence, threshold, intent, task_data, now) ==
    [vca_id |-> vca_id,
     timestamp |-> now,
     intent |-> intent,
     task_data |-> task_data,
     cognitive_state |-> [confidence |-> confidence, threshold |-> threshold],
     zkp |-> [type |-> "groth16", circuit |-> "intent_threshold",
              proof |-> vca_id, verified |-> TRUE, verified_at |-> now]]

(* generate_real_proof: the error it raises, or "ok" when create_vca runs *)
generate_real_proof(tool) ==
    IF ~tool.witness THEN "CollaboratorFailure"
    ELSE IF ~tool.prove THEN "CollaboratorFailure"
    ELSE IF ~tool.vkey THEN "NotFound"
    ELSE IF ~verify_proof(tool) THEN "InvalidProof"
    ELSE "ok"

(* uuid4().hex[:8]: an id no document of proofs/ has yet.  Ids are         *)
(* interchangeable, so the first n unused ones stand for any fresh ones.   *)
RECURSIVE FreshIds(_, _)
FreshIds(used, n) ==
    IF n = 0 THEN <<>>
    ELSE LET id == CHOOSE x \in VcaIds \ used : \A y \in VcaIds \ used : x <= y
         IN <<id>> \o FreshIds(used \cup {id}, n - 1)

(* main(), lines 282-288 *)
InRange(percent) == 0 <= percent /\ percent <= 10000

(* Mutant: the VCA document is written before the proof is verified *)
generate_main_SavesBeforeVerify(files, confidence, threshold, intent, tool, now) ==
    LET vca_id == FreshIds(DOMAIN files, 1)[1]
        outcome == IF ~InRange(confidence) \/ ~InRange(threshold) THEN "InvalidRange"
                   ELSE generate_real_proof(tool)
    IN [rc |-> IF outcome = "ok" THEN 0 ELSE 1,
        outcome |-> outcome,
        vca_id |-> IF outcome = "ok" THEN vca_id ELSE 0,
        files |-> IF outcome \in {"ok", "InvalidProof"}
                  THEN Put(files, vca_id,
                           create_vca(vca_id, confidence, threshold, intent, "", now))
                  ELSE files]

(* main() of enhanced_generate_proof.py: return code, outcome, the id of   *)
(* the VCA created (0 when none) and the proofs/ directory it leaves.      *)
generate_main(files, confidence, threshold, intent, tool, now) ==
    LET vca_id == FreshIds(DOMAIN files, 1)[1]
        outcome == IF ~InRange(confidence) \/ ~InRange(threshold) THEN "InvalidRange"
                   ELSE generate_real_proof(tool)
    IN [rc |-> IF outcome = "ok" THEN 0 ELSE 1,
        outcome |-> outcome,
        vca_id |-> IF outcome = "ok" THEN vca_id ELSE 0,
        files |-> IF outcome = "ok"
                  THEN Put(files, vca_id,
                           create_vca(vca_id, confidence, threshold, intent, "", now))
                  ELSE files]

----------------------------------------------------------------------------
(* scripts/batch_mint.py *)

MaxBatch == 2

BaseConfidenceArgs == {9995}

(* generate_batch_intents: the sample intents, cycled through by index *)
BatchIntents ==
    << <<"Approve email to team", "Send project update email">>,
       <<"Schedule standup meeting", "Book 15min daily sync">>,
       <<"Review pull request", "Code review for feature X">>,
       <<"Update documentation", "Add API examples to README">>,
       <<"Respond to Slack message", "Answer technical question">>,
       <<"Create calendar event", "Block focus time tomorrow">>,
       <<"Archive completed tasks", "Clean up task board">>,
       <<"Send meeting notes", "Distribute notes from planning session">>,
       <<"Update project timeline", "Adjust milestones in tracker">>,
       <<"Approve expense report", "Sign off on team lunch expense">> >>

generate_batch_intents(i) == BatchIntents[(i % Len(BatchIntents)) + 1]

(* Mutant: every minted VCA comes out approved *)
RECURSIVE batch_mint_AutoApproves(_, _, _, _, _, _)
batch_mint_AutoApproves(count, base_confidence, threshold, tools, ids, now) ==
    IF count = 0 THEN <<>>
    ELSE LET before == batch_mint_AutoApproves(count - 1, base_confidence, threshold,
                                               tools, ids, now)
             i == count - 1
             confidence == base_confidence + i * 10
         IN IF generate_real_proof(tools[count]) = "ok"
            THEN Append(before,
                        Put(create_vca(ids[count], confidence, threshold,
                                       generate_batch_intents(i)[1],
                                       generate_batch_intents(i)[2], now),
                            "consent",
                            [haptic_delivered |-> FALSE, user_response |-> "y",
                             timestamp |-> now]))
            ELSE before

(* Mutant: the first item that fails ends the loop *)
RECURSIVE batch_mint_StopsAtFailure(_, _, _, _, _, _)
batch_mint_StopsAtFailure(count, base_confidence, threshold, tools, ids, now) ==
    IF count = 0 THEN <<>>
    ELSE LET before == batch_mint_StopsAtFailure(count - 1, base_confidence, threshold,
                                                 tools, ids, now)
             i == count - 1
             confidence == base_confidence + i * 10
         IN IF generate_real_proof(tools[count]) = "ok" /\ Len(before) = count - 1
            THEN Append(before,
                        create_vca(ids[count], confidence, threshold,
                                   generate_batch_intents(i)[1],
                                   generate_batch_intents(i)[2], now))
            ELSE before

(* batch_mint, lines 75-95: item i (from 0) has confidence base + 0.1*i    *)
(* and is appended when generate_real_proof raises nothing.                *)
RECURSIVE batch_mint(_, _, _, _, _, _)
batch_mint(count, base_confidence, threshold, tools, ids, now) ==
    IF count = 0 THEN <<>>
    ELSE LET before == batch_mint(count - 1, base_confidence, threshold, tools, ids, now)
             i == count - 1
             confidence == base_confidence + i * 10
         IN IF generate_real_proof(tools[count]) = "ok"
            THEN Append(before,
                        create_vca(ids[count], confidence, threshold,
                                   generate_batch_intents(i)[1],
                                   generate_batch_intents(i)[2], now))
            ELSE before

RECURSIVE SumConfidence(_)
SumConfidence(vcas) ==
    IF vcas = <<>> THEN 0
    ELSE vcas[1].cognitive_state.confidence + SumConfidence(Tail(vcas))

(* Mutant: the quotient is cut off instead of rounded *)
RoundDiv_Truncates(total, n, tie_up) == total \div n

(* round(total / n, 2) on hundredths: to the nearest unit.  When the mean  *)
(* lies exactly between two units, the binary float that stands for it     *)
(* lies just above or just below, and round() follows the float: tie_up    *)
(* says which.                                                             *)
RoundDiv(total, n, tie_up) ==
    LET q == total \div n
        r == total % n
    IN IF 2 * r < n THEN q
       ELSE IF 2 * r > n THEN q + 1
       ELSE IF tie_up THEN q + 1 ELSE q

create_rollup_entry(vcas, batch_id, now, tie_up) ==
    [batch_id |-> batch_id,
     tx_id |-> [prefix |-> "rollup-", digits |-> batch_id],
     timestamp |-> now,
     action |-> "batch_rollup",
     vca_count |-> Len(vcas),
     vca_ids |-> [i \in 1..Len(vcas) |-> vcas[i].vca_id],
     total_confidence_avg |-> RoundDiv(SumConfidence(vcas), Len(vcas), tie_up),
     status |-> "pending_confirmation",
     metadata |-> [individual_proofs |-> TRUE,
                   gas_savings_vs_individual |-> "87%",
                   vgt_amortized |-> TRUE]]

(* simulate_gas_savings: the simulated gas costs *)
individual_gas == 150000
batch_overhead == 50000
per_item_gas == 20000

(* Mutant: the batch setup cost is left out *)
simulate_gas_savings_NoOverhead(vca_count, tie_up) ==
    LET individual_total == individual_gas * vca_count
        batch_total == per_item_gas * vca_count
        savings == individual_total - batch_total
    IN [individual_cost |-> individual_total,
        batch_cost |-> batch_total,
        savings |-> savings,
        savings_percent |-> RoundDiv(savings * 1000, individual_total, tie_up)]

(* simulate_gas_savings, for vca_count >= 1; savings_percent is            *)
(* round(savings / individual_total * 100, 1), held in tenths of a percent *)
simulate_gas_savings(vca_count, tie_up) ==
    LET individual_total == individual_gas * vca_count
        batch_total == batch_overhead + (per_item_gas * vca_count)
        savings == individual_total - batch_total
    IN [individual_cost |-> individual_total,
        batch_cost |-> batch_total,
        savings |-> savings,
        savings_percent |-> RoundDiv(savings * 1000, individual_total, tie_up)]

(* The proofs/ directory after create_vca saved every VCA of the list *)
RECURSIVE SaveAll(_, _)
SaveAll(files, vcas) ==
    IF vcas = <<>> THEN files
    ELSE SaveAll(Put(files, vcas[1].vca_id, vcas[1]), Tail(vcas))

(* Mutant: the rollup is also appended to ledger.json *)
save_rollup_IntoLedger(rollups, ledger, batch_id, rollup_entry) ==
    [rollups |-> Put(rollups, batch_id, rollup_entry),
     ledger |-> Append(ledger, rollup_entry)]

(* main(), lines 233-234: the rollup is written to proofs/<batch_id>.json; *)
(* ledger.json is not opened.                                              *)
save_rollup(rollups, ledger, batch_id, rollup_entry) ==
    [rollups |-> Put(rollups, batch_id, rollup_entry), ledger |-> ledger]

(* main() of batch_mint.py: return code, outcome and the files it leaves.  *)
(* An empty batch dies of the division at line 107, which main() reports   *)
(* with return code 1 before any rollup is written.                        *)
batch_main(files, rollups, ledger, count, base_confidence, threshold, tools, now, tie_up) ==
    LET ids == FreshIds(DOMAIN files, count)
        vcas == batch_mint(count, base_confidence, threshold, tools, ids, now)
        batch_id == now
    IN IF vcas = <<>>
       THEN [rc |-> 1, outcome |-> "ZeroDivisionError", files |-> files,
             rollups |-> rollups, ledger |-> ledger, vcas |-> vcas]
       ELSE LET saved == save_rollup(rollups, ledger, batch_id,
                                     create_rollup_entry(vcas, batch_id, now, tie_up))
            IN [rc |-> 0, outcome |-> "ok", files |-> SaveAll(files, vcas),
                rollups |-> saved.rollups, ledger |-> saved.ledger, vcas |-> vcas]

----------------------------------------------------------------------------
(* The commands, one action each *)

Writers == {1, 2}

NoCommand == [op |-> "none", vca_id |-> 0, rc |-> 0, outcome |-> "none", prompts |-> 0]

(* What a command leaves in last: its outcome when the run is logged *)
Logged(log, record) == IF log THEN record ELSE NoCommand

Init ==
    /\ vca_files = <<>>
    /\ rollup_files = <<>>
    /\ ledger_file = <<>>
    /\ clock = 0
    /\ last = NoCommand
    /\ overridden = FALSE
    /\ wpc = [w \in Writers |-> "idle"]
    /\ wvca = [w \in Writers |-> <<>>]
    /\ wledger = [w \in Writers |-> <<>>]
    /\ wres = [w \in Writers |-> "none"]

writer_vars == <<wpc, wvca, wledger, wres>>

(* enhanced_generate_proof.py main() *)
Generate(log) ==
    /\ VcaIds \ DOMAIN vca_files # {}
    /\ \E confidence \in ConfidenceArgs, threshold \in ThresholdArgs, intent \in IntentArgs,
          tool \in Toolchains :
        \E r \in {generate_main(vca_files, confidence, threshold, intent, tool, clock)} :
           /\ vca_files' = r.files
           /\ last' = Logged(log, [op |-> "generate", vca_id |-> r.vca_id, rc |-> r.rc,
                                   outcome |-> r.outcome, prompts |-> 0])
           /\ UNCHANGED <<clock, rollup_files, ledger_file, overridden, writer_vars>>

(* request_confirmation.py main() *)
RequestConfirmation(log) ==
    \E vca_id \in VcaIds, stdin \in Stdins :
        \E r \in {request_confirmation(vca_files, vca_id, stdin, clock)} :
           /\ vca_files' = r.files
           /\ last' = Logged(log, [op |-> "confirm", vca_id |-> vca_id, rc |-> r.rc,
                                   outcome |-> r.outcome, prompts |-> r.prompts])
           /\ UNCHANGED <<clock, rollup_files, ledger_file, overridden, writer_vars>>

(* post_ledger.py main(); it reads at most one line *)
PostLedger(log) ==
    \E vca_id \in VcaIds, stdin \in PostStdins :
        \E r \in {post_to_ledger(vca_files, ledger_file, vca_id, stdin, clock)} :
           /\ Len(r.ledger) <= MaxLedger
           /\ ledger_file' = r.ledger
           /\ overridden' = (overridden \/ r.outcome = "PostedOverride")
           /\ last' = Logged(log, [op |-> "post", vca_id |-> vca_id, rc |-> r.rc,
                                   outcome |-> r.outcome, prompts |-> 0])
           /\ UNCHANGED <<clock, vca_files, rollup_files, writer_vars>>

(* batch_mint.py main() *)
BatchMint(log) ==
    \E count \in 0..MaxBatch, base_confidence \in BaseConfidenceArgs,
       threshold \in ThresholdArgs :
        /\ count <= Cardinality(VcaIds \ DOMAIN vca_files)
        /\ \E tools \in [1..count -> Toolchains], tie_up \in BOOLEAN :
            \E r \in {batch_main(vca_files, rollup_files, ledger_file, count,
                                 base_confidence, threshold, tools, clock, tie_up)} :
               /\ vca_files' = r.files
               /\ rollup_files' = r.rollups
               /\ ledger_file' = r.ledger
               /\ last' = Logged(log, [op |-> "batch", vca_id |-> 0, rc |-> r.rc,
                                       outcome |-> r.outcome, prompts |-> 0])
               /\ UNCHANGED <<clock, overridden, writer_vars>>

(* A second passes between two commands *)
Tick ==
    /\ clock < MaxTime
    /\ clock' = clock + 1
    /\ UNCHANGED <<vca_files, rollup_files, ledger_file, last, overridden, writer_vars>>

(* Every command, run one at a time; outcomes are not logged *)
Next ==
    \/ Generate(FALSE)
    \/ RequestConfirmation(FALSE)
    \/ PostLedger(FALSE)
    \/ BatchMint(FALSE)
    \/ Tick

Spec == Init /\ [][Next]_vars

(* The single-VCA lifecycle, run one command at a time, outcomes logged *)
NextLog ==
    \/ Generate(TRUE)
    \/ RequestConfirmation(TRUE)
    \/ PostLedger(TRUE)
    \/ Tick

SpecLog == Init /\ [][NextLog]_vars

(* Minting: single and batch construction and ledger posts, outcomes       *)
(* logged; consent capture runs too, its outcome is not logged.            *)
NextMint ==
    \/ Generate(TRUE)
    \/ BatchMint(TRUE)
    \/ PostLedger(TRUE)
    \/ RequestConfirmation(FALSE)
    \/ Tick

SpecMint == Init /\ [][NextMint]_vars

----------------------------------------------------------------------------
(* Two post_ledger.py processes without serialization: each runs           *)
(* post_to_ledger once, step by step, and the steps of the two interleave  *)
(* with each other and with the other commands, which run atomically.      *)
(* A process that ends without posting keeps nothing in memory.  The race  *)
(* does not depend on the time of day: the clock stands still here.        *)

(* lines 169-177: load_vca and the consent check *)
WStart(w) ==
    /\ wpc[w] = "idle"
    /\ \E vca_id \in VcaIds :
          IF ~VcaExists(vca_files, vca_id)
          THEN /\ wpc' = [wpc EXCEPT ![w] = "done"]
               /\ wres' = [wres EXCEPT ![w] = "NotFound"]
               /\ UNCHANGED wvca
          ELSE IF ~HasConsent(vca_files[vca_id])
          THEN /\ wpc' = [wpc EXCEPT ![w] = "done"]
               /\ wres' = [wres EXCEPT ![w] = "MissingConsent"]
               /\ UNCHANGED wvca
          ELSE /\ wpc' = [wpc EXCEPT ![w] = "load"]
               /\ wvca' = [wvca EXCEPT ![w] = vca_files[vca_id]]
               /\ UNCHANGED wres
    /\ UNCHANGED <<vca_files, rollup_files, ledger_file, clock, last, overridden, wledger>>

(* lines 180-190: load_ledger and the duplicate prompt *)
WLoad(w) ==
    /\ wpc[w] = "load"
    /\ \E stdin \in PostStdins :
          LET ledger == load_ledger(ledger_file)
              gate == DuplicateGate(ledger, wvca[w].vca_id, stdin)
          IN /\ overridden' = (overridden \/ gate = "override")
             /\ IF gate \in {"go", "override"}
                THEN /\ wpc' = [wpc EXCEPT ![w] = "append"]
                     /\ wledger' = [wledger EXCEPT ![w] = ledger]
                     /\ UNCHANGED <<wvca, wres>>
                ELSE /\ wpc' = [wpc EXCEPT ![w] = "done"]
                     /\ wres' = [wres EXCEPT ![w] =
                                   CASE gate = "eof" -> "EOFError"
                                     [] gate = "interrupt" -> "KeyboardInterrupt"
                                     [] OTHER -> "Cancelled"]
                     /\ wvca' = [wvca EXCEPT ![w] = <<>>]
                     /\ UNCHANGED wledger
    /\ UNCHANGED <<vca_files, rollup_files, ledger_file, clock, last>>

(* lines 193-203: the entry is built and appended in memory *)
WAppend(w) ==
    /\ wpc[w] = "append"
    /\ Len(wledger[w]) < MaxLedger
    /\ wledger' = [wledger EXCEPT ![w] = AppendEntry(wledger[w], wvca[w], clock)]
    /\ wpc' = [wpc EXCEPT ![w] = "save"]
    /\ UNCHANGED <<vca_files, rollup_files, ledger_file, clock, last, overridden, wvca, wres>>

(* lines 206-224: save_ledger, then return 0 *)
WSave(w) ==
    /\ wpc[w] = "save"
    /\ ledger_file' = save_ledger(ledger_file, wledger[w])
    /\ wpc' = [wpc EXCEPT ![w] = "done"]
    /\ wres' = [wres EXCEPT ![w] = "Posted"]
    /\ UNCHANGED <<vca_files, rollup_files, clock, last, overridden, wvca, wledger>>

NextConc ==
    \/ Generate(FALSE)
    \/ RequestConfirmation(FALSE)
    \/ PostLedger(FALSE)
    \/ \E w \in Writers : WStart(w)
    \/ \E w \in Writers : WLoad(w)
    \/ \E w \in Writers : WAppend(w)
    \/ \E w \in Writers : WSave(w)

SpecConc == Init /\ [][NextConc]_vars

----------------------------------------------------------------------------
(* Ledger ingestion as a function of the VCA document: proofs/ holds one   *)
(* VCA whose consent record has any raw user_response, or none, as a       *)
(* legacy or hand-edited document may, and whose confidence lies anywhere  *)
(* around the reward tiers.                                                *)

RawResponses == {"y", "n", "yes", "approved", "", "unknown"}

ConfidenceSamples == {0, 8999, 9000, 9300, 9499, 9500, 9600, 10000}

ConsentRecords ==
    {[haptic_delivered |-> TRUE, user_response |-> response, timestamp |-> 0] :
        response \in RawResponses}
    \cup {[haptic_delivered |-> TRUE, timestamp |-> 0]}

InitEntry ==
    /\ \E confidence \in ConfidenceSamples, consent \in ConsentRecords :
          vca_files = Put(<<>>, 1,
                          Put(create_vca(1, confidence, 9200, "Example cognitive action",
                                         "", 0),
                              "consent", consent))
    /\ rollup_files = <<>>
    /\ ledger_file = <<>>
    /\ clock = 0
    /\ last = NoCommand
    /\ overridden = FALSE
    /\ wpc = [w \in Writers |-> "idle"]
    /\ wvca = [w \in Writers |-> <<>>]
    /\ wledger = [w \in Writers |-> <<>>]
    /\ wres = [w \in Writers |-> "none"]

NextEntry == PostLedger(TRUE) \/ Tick

SpecEntry == InitEntry /\ [][NextEntry]_vars

----------------------------------------------------------------------------
(* One batch mint in an empty proofs/ directory, of up to MaxRollup items, *)
(* any of which the toolchain may fail; the run is logged with the gas     *)
(* summary that display_batch_summary prints.                              *)

MaxRollup == 10

RollupBaseArgs == {9400, 9995}

(* A toolchain run that verifies, and one that fails at the witness *)
GoodTool == [witness |-> TRUE, prove |-> TRUE, vkey |-> TRUE,
             verify_exit |-> 0, verify_says_ok |-> TRUE]
BadTool == [witness |-> FALSE, prove |-> FALSE, vkey |-> FALSE,
            verify_exit |-> 1, verify_says_ok |-> FALSE]

RollupRun ==
    /\ vca_files = <<>>
    /\ \E count \in 1..MaxRollup, base_confidence \in RollupBaseArgs,
          minted \in SUBSET (1..MaxRollup), tie_up \in BOOLEAN, gas_tie_up \in BOOLEAN :
        /\ minted \subseteq 1..count
        /\ LET tools == [i \in 1..count |-> IF i \in minted THEN GoodTool ELSE BadTool]
               vcas == batch_mint(count, base_confidence, 9200, tools,
                                  [i \in 1..count |-> i], clock)
               batch_id == clock
           IN /\ vcas # <<>>
              /\ vca_files' = SaveAll(vca_files, vcas)
              /\ rollup_files' = save_rollup(rollup_files, ledger_file, batch_id,
                                             create_rollup_entry(vcas, batch_id, clock,
                                                                 tie_up)).rollups
              /\ last' = [op |-> "batch", vca_id |-> 0, rc |-> 0, outcome |-> "ok",
                          prompts |-> 0, vca_count |-> Len(vcas),
                          gas |-> simulate_gas_savings(Len(vcas), gas_tie_up)]
    /\ UNCHANGED <<clock, ledger_file, overridden, writer_vars>>

NextRollup == RollupRun \/ Tick

SpecRollup == Init /\ [][NextRollup]_vars

----------------------------------------------------------------------------
(* scripts/verify_proof.py, and the generator's own verification, run on   *)
(* the same call of "snarkjs groth16 verify": which of the files exist,    *)
(* whether snarkjs is found at all, its exit status and what it printed on *)
(* stdout, a string of at most MaxOutput characters.                       *)

MaxOutput == 3

OutputChars == {"O", "K", "x"}

ExitStatuses == {0, 1, 2}

(* needle in haystack, on str *)
Contains(haystack, needle) ==
    \E i \in 1..(Len(haystack) - Len(needle) + 1) :
        SubSeq(haystack, i, i + Len(needle) - 1) = needle

(* A run that never starts snarkjs has no exit status or output of its     *)
(* own: its fields are fixed.                                              *)
VerifyCalls ==
    {c \in [proof_exists : BOOLEAN, public_exists : BOOLEAN, vkey : BOOLEAN,
            found : BOOLEAN, exit : ExitStatuses,
            stdout : SeqsUpTo(OutputChars, MaxOutput)] :
        ~c.found => (c.exit = 1 /\ c.stdout = <<>>)}

(* verify_proof of enhanced_generate_proof.py on a call: the missing key   *)
(* raises, a command that is not found or exits non-zero raises inside the *)
(* try and gives False, else "OK" in output.                               *)
generator_verify_proof(call) ==
    IF ~call.vkey THEN FALSE
    ELSE IF ~call.found THEN FALSE
    ELSE verify_proof([verify_exit |-> call.exit,
                       verify_says_ok |-> Contains(call.stdout, <<"O", "K">>)])

(* Mutant: the output has to be OK and nothing else *)
standalone_verify_proof_ExactOutput(call) ==
    IF ~call.proof_exists THEN FALSE
    ELSE IF ~call.public_exists THEN FALSE
    ELSE IF ~call.vkey THEN FALSE
    ELSE IF ~call.found THEN FALSE
    ELSE call.stdout = <<"O", "K">>

(* verify_proof of verify_proof.py: its is_valid *)
standalone_verify_proof(call) ==
    IF ~call.proof_exists THEN FALSE
    ELSE IF ~call.public_exists THEN FALSE
    ELSE IF ~call.vkey THEN FALSE
    ELSE IF ~call.found THEN FALSE
    ELSE Contains(call.stdout, <<"O", "K">>) \/ call.exit = 0

(* Both verifiers run on one call; the return code is that of              *)
(* verify_proof.py main().                                                 *)
VerifyRun ==
    /\ \E call \in VerifyCalls :
          last' = [op |-> "verify", vca_id |-> 0,
                   rc |-> IF standalone_verify_proof(call) THEN 0 ELSE 1,
                   outcome |-> IF standalone_verify_proof(call) THEN "valid" ELSE "invalid",
                   prompts |-> 0,
                   call |-> call,
                   generator |-> generator_verify_proof(call)]
    /\ UNCHANGED <<vca_files, rollup_files, ledger_file, clock, overridden, writer_vars>>

NextVerify == VerifyRun

SpecVerify == Init /\ [][NextVerify]_vars

----------------------------------------------------------------------------
(* Properties *)

(* The operator did not answer yes at the first prompt: end-of-file, an    *)
(* interrupt, or a line that is neither y nor yes once stripped.           *)
NotConfirmed(stdin) ==
    \/ stdin = <<>>
    \/ Head(stdin) = "^C"
    \/ StripLower(Head(stdin)) \notin {"y", "yes"}

(* int() of a zero-padded counter *)
RECURSIVE DigitsValue(_)
DigitsValue(ds) ==
    IF ds = <<>> THEN 0
    ELSE 10 * DigitsValue(SubSeq(ds, 1, Len(ds) - 1)) + ds[Len(ds)]

IsPrefix(s, t) == Len(s) <= Len(t) /\ SubSeq(t, 1, Len(s)) = s

(* C1: post_to_ledger on an existing VCA that carries no consent record    *)
(* returns 1 with the missing-consent error and leaves ledger.json as it   *)
(* was, whatever the ledger holds and whatever is typed; and every such    *)
(* post that runs ends that way.                                           *)
C1_MissingConsentRejected ==
    /\ [](\A vca_id \in DOMAIN vca_files, stdin \in PostStdins :
            "consent" \notin DOMAIN vca_files[vca_id] =>
                LET r == post_to_ledger(vca_files, ledger_file, vca_id, stdin, clock)
                IN r.rc = 1 /\ r.outcome = "MissingConsent" /\ r.ledger = ledger_file)
    /\ [][(/\ last'.op = "post"
           /\ clock' = clock
           /\ last'.vca_id \in DOMAIN vca_files
           /\ "consent" \notin DOMAIN vca_files[last'.vca_id])
          => (/\ last'.rc = 1
              /\ last'.outcome = "MissingConsent"
              /\ ledger_file' = ledger_file)]_vars

C1_Witness ==
    /\ last.op = "post"
    /\ last.outcome = "MissingConsent"
    /\ last.rc = 1
    /\ last.vca_id \in DOMAIN vca_files
    /\ "consent" \notin DOMAIN vca_files[last.vca_id]
    /\ ledger_file # <<>>

(* C2: every ledger entry refers to a VCA that has a consent record and    *)
(* carries the response and timestamp of a recorded consent; an executed   *)
(* entry has the approve response and only an executed entry is rewarded;  *)
(* and whenever the ledger grows, the VCA of the new entry had a consent   *)
(* record before the step and the entry copies its response.               *)
C2_NoConsentBypass ==
    /\ [](\A i \in 1..Len(ledger_file) :
            LET e == ledger_file[i]
            IN /\ e.vca_id \in DOMAIN vca_files
               /\ "consent" \in DOMAIN vca_files[e.vca_id]
               /\ e.human_consent \in {"y", "n"}
               /\ e.metadata.consent_timestamp \in Times
               /\ (e.status = "executed" => e.human_consent = "y")
               /\ (e.vgt_reward > 0 => e.status = "executed"))
    /\ [][Len(ledger_file') > Len(ledger_file) =>
            LET e == ledger_file'[Len(ledger_file')]
            IN /\ e.vca_id \in DOMAIN vca_files
               /\ "consent" \in DOMAIN vca_files[e.vca_id]
               /\ e.human_consent = vca_files[e.vca_id].consent.user_response
               /\ e.metadata.consent_timestamp = vca_files[e.vca_id].consent.timestamp]_vars

C2_Witness ==
    /\ \E i \in 1..Len(ledger_file) : ledger_file[i].status = "executed"
    /\ \E i \in 1..Len(ledger_file) : ledger_file[i].status = "vetoed"
    /\ \E vca_id \in DOMAIN vca_files : "consent" \notin DOMAIN vca_files[vca_id]
    /\ rollup_files # <<>>

(* C3: under one-at-a-time ledger mutation the i-th entry of the ledger    *)
(* has the six-digit counter i, so the tx ids are pairwise distinct and    *)
(* strictly increasing in append order, whatever mix of posts, overridden  *)
(* duplicate posts and batch mints produced the state.                     *)
C3_TxIdsSequential ==
    /\ \A i \in 1..Len(ledger_file) :
          /\ ledger_file[i].tx_id.prefix = "tx-"
          /\ Len(ledger_file[i].tx_id.digits) = 6
          /\ DigitsValue(ledger_file[i].tx_id.digits) = i
    /\ \A i, j \in 1..Len(ledger_file) :
          i < j => /\ ledger_file[i].tx_id # ledger_file[j].tx_id
                   /\ DigitsValue(ledger_file[i].tx_id.digits)
                        < DigitsValue(ledger_file[j].tx_id.digits)

C3_Witness ==
    /\ Len(ledger_file) >= 2
    /\ overridden
    /\ rollup_files # <<>>

(* Both unserialized writers posted, each a different VCA, and each had    *)
(* read a ledger of the same length.                                       *)
BothPostedFromSameLength ==
    /\ \A w \in Writers : wpc[w] = "done" /\ wres[w] = "Posted"
    /\ wvca[1].vca_id # wvca[2].vca_id
    /\ Len(wledger[1]) = Len(wledger[2])

(* Writer w saves its ledger as the second of the two.                     *)
SecondSave(w) ==
    /\ wpc[w] = "save"
    /\ wpc'[w] = "done"
    /\ BothPostedFromSameLength'

(* C4: when two unserialized posts of different consented VCAs both read a *)
(* ledger of the same length N and both report success, then once the      *)
(* second of them has saved, both entries carry the tx id N+1 and          *)
(* ledger.json is the ledger of the second writer alone: it has N+1        *)
(* entries and holds that writer's entry, not the other's.                 *)
C4_LostUpdate ==
    [][\A w \in Writers :
        SecondSave(w) =>
            LET o == 3 - w
                n == Len(wledger[w]) - 1
                e1 == wledger[w][n + 1]
                e2 == wledger[o][n + 1]
                InLedger(e) ==
                    \E i \in 1..Len(ledger_file') : ledger_file'[i] = e
            IN /\ wres'[w] = "Posted" /\ wres'[o] = "Posted"
               /\ e1.tx_id = e2.tx_id
               /\ DigitsValue(e1.tx_id.digits) = n + 1
               /\ e1.vca_id # e2.vca_id
               /\ "consent" \in DOMAIN wvca[w]
               /\ "consent" \in DOMAIN wvca[o]
               /\ Len(ledger_file') = n + 1
               /\ ledger_file' = wledger[w]
               /\ InLedger(e1)
               /\ ~InLedger(e2)]_vars

(* Both writers reported success from a ledger that already had an entry,  *)
(* and ledger.json holds one entry fewer than the posts that succeeded.    *)
C4_Witness ==
    /\ BothPostedFromSameLength
    /\ Len(wledger[1]) = 2
    /\ Len(ledger_file) = 2
    /\ ledger_file \in {wledger[1], wledger[2]}
    /\ wledger[1] # wledger[2]

(* C5: the ledger before a step is a prefix of the ledger after it: no     *)
(* entry is removed, reordered or edited, also not by a re-confirmation of *)
(* the VCA an entry refers to.                                             *)
C5_AppendOnly == [][IsPrefix(ledger_file, ledger_file')]_vars

C5_Witness ==
    /\ Len(ledger_file) >= 2
    /\ \E i \in 1..Len(ledger_file) :
          vca_files[ledger_file[i].vca_id].consent.user_response
              # ledger_file[i].human_consent

(* C6: a post of a VCA id that some ledger entry already refers to, when   *)
(* the operator does not answer yes, leaves ledger.json exactly as it was. *)
C6_DuplicateRejected ==
    /\ [](\A vca_id \in DOMAIN vca_files, stdin \in PostStdins :
            (/\ \E i \in 1..Len(ledger_file) : ledger_file[i].vca_id = vca_id
             /\ NotConfirmed(stdin)) =>
                LET r == post_to_ledger(vca_files, ledger_file, vca_id, stdin, clock)
                IN r.ledger = ledger_file /\ r.outcome \notin {"Posted", "PostedOverride"})
    /\ [][(/\ last'.op = "post"
           /\ clock' = clock
           /\ \E i \in 1..Len(ledger_file) : ledger_file[i].vca_id = last'.vca_id
           /\ last'.outcome # "PostedOverride")
          => ledger_file' = ledger_file]_vars

C6_Witness ==
    /\ last.op = "post"
    /\ last.outcome = "Cancelled"
    /\ \E i \in 1..Len(ledger_file) : ledger_file[i].vca_id = last.vca_id

(* C7: as long as the operator never confirmed a duplicate override, no    *)
(* two ledger entries share a vca_id.                                      *)
C7_UniqueVcaIds ==
    ~overridden =>
        \A i, j \in 1..Len(ledger_file) :
            i # j => ledger_file[i].vca_id # ledger_file[j].vca_id

C7_Witness ==
    /\ ~overridden
    /\ Len(ledger_file) >= 2

(* C10: consent capture on a VCA that already has a consent record, when   *)
(* the caller does not answer yes to the re-confirmation question, issues  *)
(* no consent prompt and leaves the VCA document, and so its consent       *)
(* response and timestamp, unchanged.                                      *)
C10_ReconfirmRejected ==
    /\ [](\A vca_id \in DOMAIN vca_files, stdin \in Stdins :
            ("consent" \in DOMAIN vca_files[vca_id] /\ NotConfirmed(stdin)) =>
                LET r == request_confirmation(vca_files, vca_id, stdin, clock)
                IN /\ r.prompts = 0
                   /\ r.outcome # "Recorded"
                   /\ r.files = vca_files)
    /\ [][(/\ last'.op = "confirm"
           /\ clock' = clock
           /\ last'.outcome = "Cancelled")
          => (/\ last'.prompts = 0
              /\ vca_files' = vca_files
              /\ "consent" \in DOMAIN vca_files[last'.vca_id])]_vars

C10_Witness ==
    /\ last.op = "confirm"
    /\ last.outcome = "Cancelled"
    /\ last.prompts = 0
    /\ vca_files[last.vca_id].consent.timestamp < clock

(* The raw response of a VCA document's consent record, as               *)
(* consent.get('user_response', 'unknown') reads it                        *)
RawResponse(vca) ==
    IF "user_response" \in DOMAIN vca.consent THEN vca.consent.user_response ELSE "unknown"

(* C8: whatever raw response the consent record holds, posting the VCA     *)
(* completes with return code 0 and appends one entry, and every entry has *)
(* (action, status) = (execute, executed) for the approve response y,      *)
(* (veto, vetoed) for the veto response n and (unknown, pending) for any   *)
(* other value, with human_consent the raw response.                       *)
C8_ConsentMapping ==
    /\ \A i \in 1..Len(ledger_file) :
          LET e == ledger_file[i]
              raw == RawResponse(vca_files[e.vca_id])
          IN /\ e.human_consent = raw
             /\ (raw = "y" => e.action = "execute" /\ e.status = "executed")
             /\ (raw = "n" => e.action = "veto" /\ e.status = "vetoed")
             /\ (raw \notin {"y", "n"} => e.action = "unknown" /\ e.status = "pending")
    /\ \A vca_id \in DOMAIN vca_files :
          (\A i \in 1..Len(ledger_file) : ledger_file[i].vca_id # vca_id) =>
              LET r == post_to_ledger(vca_files, ledger_file, vca_id, <<>>, clock)
              IN r.rc = 0 /\ Len(r.ledger) = Len(ledger_file) + 1

C8_Witness ==
    /\ last.op = "post"
    /\ last.rc = 0
    /\ Len(ledger_file) >= 1
    /\ ledger_file[1].human_consent = "approved"
    /\ ledger_file[1].status = "pending"

(* C9: an entry's vgt_reward is fixed by its status and its confidence     *)
(* snapshot: executed gives 10 from 95, 5 from 90 to below 95 and 3 below  *)
(* 90; vetoed and pending give 0 at every confidence.  Executed at 96      *)
(* gives 10 and executed at 93 gives 5.                                    *)
C9_RewardTiers ==
    /\ \A i \in 1..Len(ledger_file) :
          LET e == ledger_file[i]
              confidence == e.cognitive_state.confidence
          IN /\ (e.status = "executed" /\ confidence >= 9500 => e.vgt_reward = 10)
             /\ (e.status = "executed" /\ confidence >= 9000 /\ confidence < 9500
                   => e.vgt_reward = 5)
             /\ (e.status = "executed" /\ confidence < 9000 => e.vgt_reward = 3)
             /\ (e.status \in {"vetoed", "pending"} => e.vgt_reward = 0)
             /\ (e.status = "executed" /\ confidence = 9600 => e.vgt_reward = 10)
             /\ (e.status = "executed" /\ confidence = 9300 => e.vgt_reward = 5)
    /\ \A i, j \in 1..Len(ledger_file) :
          (/\ ledger_file[i].status = ledger_file[j].status
           /\ ledger_file[i].cognitive_state = ledger_file[j].cognitive_state)
          => ledger_file[i].vgt_reward = ledger_file[j].vgt_reward

C9_Witness ==
    /\ Len(ledger_file) >= 2
    /\ ledger_file[1].status = "executed"
    /\ ledger_file[1].cognitive_state.confidence = 9500
    /\ ledger_file[2].vgt_reward = 10

(* The first line typed is y or yes, once stripped and lowered *)
AnswersYesFirst(stdin) ==
    /\ stdin # <<>>
    /\ Head(stdin) # "^C"
    /\ StripLower(Head(stdin)) \in {"y", "yes"}

RECURSIVE CancelledBeforeAnswer(_)
CancelledBeforeAnswer(stdin) ==
    \/ stdin = <<>>
    \/ Head(stdin) = "^C"
    \/ /\ StripLower(Head(stdin)) \notin {"y", "yes", "n", "no"}
       /\ CancelledBeforeAnswer(Tail(stdin))

(* C12: consent capture on a VCA without a consent record that is          *)
(* cancelled before a valid answer was given, also after invalid answers,  *)
(* returns 1, writes no consent record and leaves every VCA document and   *)
(* ledger.json as they were.                                               *)
C12_CancelLeavesUnconfirmed ==
    /\ [](\A vca_id \in DOMAIN vca_files, stdin \in Stdins :
            ("consent" \notin DOMAIN vca_files[vca_id] /\ CancelledBeforeAnswer(stdin)) =>
                LET r == request_confirmation(vca_files, vca_id, stdin, clock)
                IN /\ r.outcome \in {"KeyboardInterrupt", "EOFError"}
                   /\ r.rc = 1
                   /\ r.prompts >= 1
                   /\ r.files = vca_files)
    /\ [][(/\ last'.op = "confirm"
           /\ last'.outcome \in {"KeyboardInterrupt", "EOFError"}
           /\ last'.vca_id \in DOMAIN vca_files
           /\ "consent" \notin DOMAIN vca_files[last'.vca_id])
          => (/\ vca_files' = vca_files
              /\ ledger_file' = ledger_file
              /\ "consent" \notin DOMAIN vca_files'[last'.vca_id])]_vars

(* The human interrupted the second approval prompt, after an invalid      *)
(* answer to the first; the VCA has no consent record.                     *)
C12_Witness ==
    /\ last.op = "confirm"
    /\ last.outcome = "KeyboardInterrupt"
    /\ last.rc = 1
    /\ last.prompts = 2
    /\ "consent" \notin DOMAIN vca_files[last.vca_id]
    /\ ledger_file # <<>>

(* The toolchain run ends with "snarkjs groth16 verify" exiting 0 and      *)
(* printing OK: the attestation is verified.                               *)
Attested(tool) == tool.verify_exit = 0 /\ tool.verify_says_ok

(* C13: no VCA document has verified = false; single construction from an  *)
(* attestation that is not verified returns 1 and writes no VCA, whatever  *)
(* the confidence and threshold; a batch mint writes exactly one VCA per   *)
(* verified attestation; and a construction logged as InvalidProof left    *)
(* proofs/ as it was.                                                      *)
C13_InvalidProofRejected ==
    /\ [](\A id \in DOMAIN vca_files : vca_files[id].zkp.verified = TRUE)
    /\ [](VcaIds \ DOMAIN vca_files # {} =>
            \A confidence \in ConfidenceArgs, threshold \in ThresholdArgs,
               tool \in Toolchains :
                ~Attested(tool) =>
                    LET r == generate_main(vca_files, confidence, threshold,
                                           "Example cognitive action", tool, clock)
                    IN r.rc = 1 /\ r.outcome # "ok" /\ r.files = vca_files)
    /\ [](\A count \in 1..MaxBatch :
            count <= Cardinality(VcaIds \ DOMAIN vca_files) =>
                \A tools \in [1..count -> Toolchains], tie_up \in BOOLEAN :
                    LET r == batch_main(vca_files, rollup_files, ledger_file, count,
                                        9995, 9200, tools, clock, tie_up)
                    IN /\ Len(r.vcas) = Cardinality({i \in 1..count : Attested(tools[i])})
                       /\ Cardinality(DOMAIN r.files \ DOMAIN vca_files) = Len(r.vcas)
                       /\ \A i \in 1..Len(r.vcas) : r.vcas[i].zkp.verified = TRUE)
    /\ [][(last'.op = "generate" /\ last'.outcome = "InvalidProof" /\ clock' = clock)
          => (vca_files' = vca_files /\ last'.rc = 1)]_vars

(* A construction has just failed with InvalidProof while proofs/ already  *)
(* held a VCA made by a batch mint.                                        *)
C13_Witness ==
    /\ last.op = "generate"
    /\ last.outcome = "InvalidProof"
    /\ last.rc = 1
    /\ rollup_files # <<>>
    /\ vca_files # <<>>

(* C14 as stated: confidence and threshold outside [0,100] are rejected on *)
(* every path that constructs a VCA, the single command and the batch mint *)
(* with its i-th confidence base_confidence + 0.1*i alike, so every VCA    *)
(* document in proofs/ has both values within range.                       *)
C14_RangeCheckedOnEveryPath ==
    \A id \in DOMAIN vca_files :
        /\ InRange(vca_files[id].cognitive_state.confidence)
        /\ InRange(vca_files[id].cognitive_state.threshold)

(* C15: neither the single construction command nor a batch mint changes   *)
(* ledger.json, whatever it holds; a batch mint that mints anything writes *)
(* its rollup to the one record keyed by its batch id and nowhere else,    *)
(* and no ledger entry is a rollup.                                        *)
C15_ConstructionLeavesLedger ==
    /\ [](\A k \in DOMAIN rollup_files : rollup_files[k].batch_id = k)
    /\ [](\A i \in 1..Len(ledger_file) : ledger_file[i].action # "batch_rollup")
    /\ [](\A count \in 0..MaxBatch, base_confidence \in BaseConfidenceArgs :
            count <= Cardinality(VcaIds \ DOMAIN vca_files) =>
                \A tools \in [1..count -> Toolchains], tie_up \in BOOLEAN :
                    LET r == batch_main(vca_files, rollup_files, ledger_file, count,
                                        base_confidence, 9200, tools, clock, tie_up)
                    IN /\ r.ledger = ledger_file
                       /\ \A k \in DOMAIN rollup_files \ {clock} :
                             k \in DOMAIN r.rollups /\ r.rollups[k] = rollup_files[k]
                       /\ DOMAIN r.rollups \subseteq DOMAIN rollup_files \cup {clock}
                       /\ (r.vcas # <<>> =>
                             /\ clock \in DOMAIN r.rollups
                             /\ r.rollups[clock].vca_count = Len(r.vcas)))
    /\ [][last'.op \in {"generate", "batch"} => ledger_file' = ledger_file]_vars

(* A batch mint has just written its rollup while ledger.json held an      *)
(* entry.                                                                  *)
C15_Witness ==
    /\ last.op = "batch"
    /\ last.rc = 0
    /\ clock \in DOMAIN rollup_files
    /\ ledger_file # <<>>

(* The VCAs a rollup document lists *)
RollupVcaIds(rollup) == {rollup.vca_ids[i] : i \in 1..Len(rollup.vca_ids)}

(* C16: right after a batch mint every VCA its rollup lists has no consent *)
(* record and the rollup is pending confirmation; and posting a VCA that a *)
(* rollup lists while it has no consent record returns 1 with the          *)
(* missing-consent error and leaves ledger.json as it was.                 *)
C16_RollupGrantsNoConsent ==
    /\ [](\A k \in DOMAIN rollup_files :
            /\ rollup_files[k].status = "pending_confirmation"
            /\ \A vca_id \in RollupVcaIds(rollup_files[k]) :
                  /\ vca_id \in DOMAIN vca_files
                  /\ ("consent" \notin DOMAIN vca_files[vca_id] =>
                        \A stdin \in PostStdins :
                            LET r == post_to_ledger(vca_files, ledger_file, vca_id,
                                                    stdin, clock)
                            IN /\ r.rc = 1
                               /\ r.outcome = "MissingConsent"
                               /\ r.ledger = ledger_file))
    /\ [](\A count \in 1..MaxBatch, base_confidence \in BaseConfidenceArgs :
            count <= Cardinality(VcaIds \ DOMAIN vca_files) =>
                \A tools \in [1..count -> Toolchains], tie_up \in BOOLEAN :
                    LET r == batch_main(vca_files, rollup_files, ledger_file, count,
                                        base_confidence, 9200, tools, clock, tie_up)
                    IN \A i \in 1..Len(r.vcas) :
                          /\ "consent" \notin DOMAIN r.files[r.vcas[i].vca_id]
                          /\ r.vcas[i].vca_id \in RollupVcaIds(r.rollups[clock]))
    /\ [][(last'.op = "batch" /\ last'.rc = 0 /\ clock' = clock) =>
            \A vca_id \in RollupVcaIds(rollup_files'[clock]) :
                "consent" \notin DOMAIN vca_files'[vca_id]]_vars
    /\ [][(/\ last'.op = "post"
           /\ clock' = clock
           /\ last'.vca_id \in DOMAIN vca_files
           /\ "consent" \notin DOMAIN vca_files[last'.vca_id])
          => (last'.outcome = "MissingConsent" /\ ledger_file' = ledger_file)]_vars

(* A VCA listed in a rollup was just posted before its consent capture and *)
(* refused, while another VCA has its entry in the ledger.                 *)
C16_Witness ==
    /\ last.op = "post"
    /\ last.outcome = "MissingConsent"
    /\ \E k \in DOMAIN rollup_files : last.vca_id \in RollupVcaIds(rollup_files[k])
    /\ "consent" \notin DOMAIN vca_files[last.vca_id]
    /\ ledger_file # <<>>

(* C17 as stated: the cost model returns perTxGas*n, overhead+perItemGas*n *)
(* and their difference, and savings_percent is savings / individual_cost  *)
(* * 100 exactly, for n = 10 in particular.                                *)
C17_GasCostExact ==
    last.op = "batch" =>
        LET n == last.vca_count
            gas == last.gas
        IN /\ gas.individual_cost = 150000 * n
           /\ gas.batch_cost = 50000 + 20000 * n
           /\ gas.savings = gas.individual_cost - gas.batch_cost
           /\ gas.savings_percent * gas.individual_cost = gas.savings * 1000

(* C17 amended: for every batch size n >= 1 the cost model returns         *)
(* individual_cost = 150000*n, batch_cost = 50000 + 20000*n, savings =     *)
(* their difference, and savings_percent = savings / individual_cost * 100 *)
(* rounded to one decimal; for n = 10 it is 83.3.                          *)
C17_GasCostRounded ==
    last.op = "batch" =>
        LET n == last.vca_count
            gas == last.gas
            off == gas.savings_percent * gas.individual_cost - gas.savings * 1000
        IN /\ n >= 1
           /\ gas.individual_cost = 150000 * n
           /\ gas.batch_cost = 50000 + 20000 * n
           /\ gas.savings = gas.individual_cost - gas.batch_cost
           /\ 2 * off <= gas.individual_cost
           /\ -2 * off <= gas.individual_cost
           /\ (n = 10 => gas.savings_percent = 833)

(* The gas summary of a batch of ten has been computed *)
C17_Witness ==
    /\ last.op = "batch"
    /\ last.vca_count = 10
    /\ last.gas.savings = 1250000
    /\ last.gas.savings_percent = 833

(* The sum of the confidences of the VCA documents a rollup lists *)
RECURSIVE ListedConfidenceTotal(_, _)
ListedConfidenceTotal(files, ids) ==
    IF ids = <<>> THEN 0
    ELSE files[Head(ids)].cognitive_state.confidence
            + ListedConfidenceTotal(files, Tail(ids))

(* C18: the average confidence of every rollup is the arithmetic mean of   *)
(* the confidences of the VCAs it lists, rounded to two decimals: no other *)
(* two-decimal value is nearer to the mean; for ten VCAs with confidences  *)
(* 94.0, 94.1, ..., 94.9 it is 94.45.                                      *)
C18_AverageConfidence ==
    \A k \in DOMAIN rollup_files :
        LET rollup == rollup_files[k]
            n == Len(rollup.vca_ids)
            total == ListedConfidenceTotal(vca_files, rollup.vca_ids)
            off == rollup.total_confidence_avg * n - total
        IN /\ n >= 1
           /\ rollup.vca_count = n
           /\ 2 * off <= n
           /\ -2 * off <= n
           /\ ((n = 10 /\ \A i \in 1..10 :
                    vca_files[rollup.vca_ids[i]].cognitive_state.confidence
                        = 9400 + 10 * (i - 1))
                 => rollup.total_confidence_avg = 9445)

(* The rollup of ten VCAs with confidences 94.0 to 94.9 has been written *)
C18_Witness ==
    \E k \in DOMAIN rollup_files :
        /\ rollup_files[k].vca_count = 10
        /\ vca_files[rollup_files[k].vca_ids[1]].cognitive_state.confidence = 9400
        /\ vca_files[rollup_files[k].vca_ids[10]].cognitive_state.confidence = 9490
        /\ rollup_files[k].total_confidence_avg = 9445

(* C19 as stated: a command returns 0 exactly when it completed its        *)
(* operation and 1 on every failure, a declined duplicate-post prompt or   *)
(* re-confirmation prompt included.                                        *)
C19_ExitCodes ==
    last.op \in {"generate", "confirm", "post", "batch"} =>
        /\ last.rc \in {0, 1}
        /\ (last.rc = 0 <=> last.outcome \in {"ok", "Recorded", "Posted", "PostedOverride"})

(* The outcomes with which a command completes its operation *)
Completed == {"ok", "Recorded", "Posted", "PostedOverride"}

(* C20: whatever the inputs, a command that ends in an error outcome       *)
(* (range, collaborator, missing key or failed verification in             *)
(* construction; missing VCA, missing consent or a declined duplicate in   *)
(* posting; missing VCA or a declined or broken-off prompt in consent      *)
(* capture; a batch that mints nothing) leaves ledger.json and every file  *)
(* of proofs/ as they were; a batch in which single items fail leaves      *)
(* every earlier VCA document and ledger.json as they were.                *)
C20_ErrorsLeaveState ==
    /\ [](VcaIds \ DOMAIN vca_files # {} =>
            \A confidence \in ConfidenceArgs, threshold \in ThresholdArgs,
               tool \in Toolchains :
                LET r == generate_main(vca_files, confidence, threshold,
                                       "Example cognitive action", tool, clock)
                IN r.outcome \notin Completed => r.files = vca_files)
    /\ [](\A vca_id \in VcaIds, stdin \in Stdins :
            LET r == request_confirmation(vca_files, vca_id, stdin, clock)
            IN r.outcome \notin Completed => r.files = vca_files)
    /\ [](\A vca_id \in VcaIds, stdin \in PostStdins :
            LET r == post_to_ledger(vca_files, ledger_file, vca_id, stdin, clock)
            IN r.outcome \notin Completed => r.ledger = ledger_file)
    /\ [](\A count \in 0..MaxBatch, base_confidence \in BaseConfidenceArgs :
            count <= Cardinality(VcaIds \ DOMAIN vca_files) =>
                \A tools \in [1..count -> Toolchains] :
                    LET r == batch_main(vca_files, rollup_files, ledger_file, count,
                                        base_confidence, 9200, tools, clock, FALSE)
                    IN /\ r.ledger = ledger_file
                       /\ \A id \in DOMAIN vca_files :
                             id \in DOMAIN r.files /\ r.files[id] = vca_files[id]
                       /\ (r.outcome \notin Completed =>
                             r.files = vca_files /\ r.rollups = rollup_files))
    /\ [][(/\ last'.op \in {"generate", "post", "batch"}
           /\ last'.outcome \notin Completed
           /\ clock' = clock)
          => (/\ vca_files' = vca_files
              /\ rollup_files' = rollup_files
              /\ ledger_file' = ledger_file)]_vars

(* A construction has just failed in the proving collaborator while        *)
(* proofs/ held a confirmed VCA and ledger.json an entry.                  *)
C20_Witness ==
    /\ last.op = "generate"
    /\ last.outcome = "CollaboratorFailure"
    /\ last.rc = 1
    /\ ledger_file # <<>>
    /\ \E id \in DOMAIN vca_files : "consent" \in DOMAIN vca_files[id]

(* The first valid answer among the lines typed: y for y/yes, n for n/no;  *)
(* "" when the input ends or is interrupted before one.                    *)
RECURSIVE FirstValidAnswer(_)
FirstValidAnswer(stdin) ==
    IF stdin = <<>> \/ Head(stdin) = "^C" THEN ""
    ELSE IF StripLower(Head(stdin)) \in {"y", "yes"} THEN "y"
    ELSE IF StripLower(Head(stdin)) \in {"n", "no"} THEN "n"
    ELSE FirstValidAnswer(Tail(stdin))

(* The proofs/ directory in which the consent record of vca_id holds       *)
(* another response and timestamp                                          *)
WithPriorConsent(files, vca_id, response, timestamp) ==
    Put(files, vca_id,
        Put(files[vca_id], "consent",
            [haptic_delivered |-> TRUE, user_response |-> response,
             timestamp |-> timestamp]))

(* C21: consent capture on a VCA that has a consent record, when the       *)
(* re-confirmation question is answered yes and a valid answer follows,    *)
(* replaces the record: the VCA keeps the same fields with one consent     *)
(* record of exactly haptic_delivered, user_response and timestamp, the    *)
(* response is the answer just given and the timestamp the current time,   *)
(* and the resulting document is the same whatever the earlier record held,*)
(* so the earlier response cannot be read back from the VCA.               *)
C21_OverrideReplacesConsent ==
    /\ [](\A vca_id \in DOMAIN vca_files, stdin \in Stdins :
            (/\ "consent" \in DOMAIN vca_files[vca_id]
             /\ AnswersYesFirst(stdin)
             /\ FirstValidAnswer(Tail(stdin)) # "") =>
                LET r == request_confirmation(vca_files, vca_id, stdin, clock)
                    after == r.files[vca_id]
                IN /\ r.rc = 0
                   /\ r.outcome = "Recorded"
                   /\ DOMAIN after = DOMAIN vca_files[vca_id]
                   /\ DOMAIN after.consent = {"haptic_delivered", "user_response", "timestamp"}
                   /\ after.consent.user_response = FirstValidAnswer(Tail(stdin))
                   /\ after.consent.timestamp = clock
                   /\ \A prior \in {"y", "n"}, t \in Times :
                         request_confirmation(WithPriorConsent(vca_files, vca_id, prior, t),
                                              vca_id, stdin, clock).files[vca_id] = after)
    /\ [][(/\ last'.op = "confirm"
           /\ last'.outcome = "Recorded"
           /\ clock' = clock
           /\ last'.vca_id \in DOMAIN vca_files
           /\ "consent" \in DOMAIN vca_files[last'.vca_id])
          => (/\ DOMAIN vca_files'[last'.vca_id] = DOMAIN vca_files[last'.vca_id]
              /\ DOMAIN vca_files'[last'.vca_id].consent
                    = {"haptic_delivered", "user_response", "timestamp"}
              /\ vca_files'[last'.vca_id].consent.timestamp = clock)]_vars

(* An approval recorded and posted at time 0 has just been replaced by a   *)
(* veto at time 1: the VCA document holds the veto only.                   *)
C21_Witness ==
    /\ last.op = "confirm"
    /\ last.outcome = "Recorded"
    /\ clock = 1
    /\ vca_files[last.vca_id].consent.user_response = "n"
    /\ vca_files[last.vca_id].consent.timestamp = 1
    /\ \E i \in 1..Len(ledger_file) :
          /\ ledger_file[i].vca_id = last.vca_id
          /\ ledger_file[i].human_consent = "y"
          /\ ledger_file[i].metadata.consent_timestamp = 0

(* Document after differs from document before in its consent field at     *)
(* most: id, timestamp, intent, task data, cognitive state and the proof   *)
(* attestation are the same and no other field was added or dropped.       *)
SameButConsent(before, after) ==
    /\ DOMAIN before \ {"consent"} = DOMAIN after \ {"consent"}
    /\ \A k \in DOMAIN before \ {"consent"} : after[k] = before[k]
    /\ {"vca_id", "timestamp", "intent", "task_data", "cognitive_state", "zkp"}
          \subseteq DOMAIN before

(* C22: every step keeps every VCA document, changing its consent field at *)
(* most; consent capture, whatever is typed, changes nothing but the       *)
(* consent field of the VCA it is asked about; and a ledger post, whether  *)
(* it appends, is refused or fails, leaves every VCA document as it was.   *)
C22_VcaFieldsImmutable ==
    /\ [](\A vca_id \in DOMAIN vca_files, stdin \in Stdins :
            LET r == request_confirmation(vca_files, vca_id, stdin, clock)
            IN /\ DOMAIN r.files = DOMAIN vca_files
               /\ SameButConsent(vca_files[vca_id], r.files[vca_id])
               /\ \A other \in DOMAIN vca_files \ {vca_id} :
                     r.files[other] = vca_files[other])
    /\ [][\A id \in DOMAIN vca_files :
            /\ id \in DOMAIN vca_files'
            /\ SameButConsent(vca_files[id], vca_files'[id])]_vars
    /\ [][last'.op = "post" => vca_files' = vca_files]_vars

(* A VCA created at time 0 got its consent at time 1 and has just been     *)
(* posted: it still carries its creation time, confidence and attestation. *)
C22_Witness ==
    /\ last.op = "post"
    /\ last.outcome = "Posted"
    /\ vca_files[last.vca_id].timestamp = 0
    /\ vca_files[last.vca_id].consent.timestamp = 1
    /\ vca_files[last.vca_id].zkp.verified_at = 0
    /\ vca_files[last.vca_id].cognitive_state.confidence = 9600

(* A line typed at the approval prompt that is neither y/yes nor n/no      *)
InvalidAnswer(stdin) ==
    /\ stdin # <<>>
    /\ Head(stdin) # "^C"
    /\ StripLower(Head(stdin)) \notin {"y", "yes", "n", "no"}

(* C23: every consent response held in proofs/ is y or n and every ledger  *)
(* entry is execute/executed or veto/vetoed; consent capture records y or  *)
(* n and nothing else; a line that is neither is followed by another       *)
(* prompt and has no effect on what is written; and a consent capture that *)
(* records nothing leaves proofs/ as it was.                               *)
C23_OnlyApproveOrVeto ==
    /\ [](\A id \in DOMAIN vca_files :
            "consent" \in DOMAIN vca_files[id] =>
                vca_files[id].consent.user_response \in {"y", "n"})
    /\ [](\A i \in 1..Len(ledger_file) :
            /\ ledger_file[i].human_consent \in {"y", "n"}
            /\ ledger_file[i].action \in {"execute", "veto"}
            /\ ledger_file[i].status \in {"executed", "vetoed"})
    /\ [](\A vca_id \in DOMAIN vca_files, stdin \in Stdins :
            LET r == request_confirmation(vca_files, vca_id, stdin, clock)
            IN /\ (r.outcome = "Recorded" =>
                     r.files[vca_id].consent.user_response \in {"y", "n"})
               /\ (r.outcome # "Recorded" => r.files = vca_files)
               /\ (("consent" \notin DOMAIN vca_files[vca_id] /\ InvalidAnswer(stdin)) =>
                     /\ r.prompts >= 2
                     /\ r.files = request_confirmation(vca_files, vca_id, Tail(stdin),
                                                       clock).files))
    /\ [][(last'.op = "confirm" /\ last'.outcome # "Recorded")
          => vca_files' = vca_files]_vars

(* A veto has just been recorded at the second prompt, after a line that   *)
(* was no answer, while the ledger holds an entry.                         *)
C23_Witness ==
    /\ last.op = "confirm"
    /\ last.outcome = "Recorded"
    /\ last.prompts = 2
    /\ vca_files[last.vca_id].consent.user_response = "n"
    /\ \E i \in 1..Len(ledger_file) : ledger_file[i].status = "executed"

(* Some ledger entry already refers to the VCA id *)
AlreadyPosted(ledger, vca_id) == \E i \in 1..Len(ledger) : ledger[i].vca_id = vca_id

(* C24: a post of a VCA id the ledger already refers to, when the operator *)
(* answers y or yes, returns 0 and appends exactly one entry: the earlier  *)
(* entries stay, the new one has the same vca_id, the next tx id and the   *)
(* response and timestamp of the VCA's consent record as it is now; when   *)
(* there is no input to read, the post returns 1 and ledger.json is left   *)
(* as it was.                                                              *)
C24_DuplicateOverrideAppends ==
    /\ [](\A vca_id \in DOMAIN vca_files :
            AlreadyPosted(ledger_file, vca_id) =>
                /\ \A stdin \in PostStdins :
                      AnswersYesFirst(stdin) =>
                          LET r == post_to_ledger(vca_files, ledger_file, vca_id, stdin, clock)
                              n == Len(ledger_file)
                              e == r.ledger[n + 1]
                          IN /\ r.rc = 0
                             /\ r.outcome = "PostedOverride"
                             /\ Len(r.ledger) = n + 1
                             /\ SubSeq(r.ledger, 1, n) = ledger_file
                             /\ e.vca_id = vca_id
                             /\ e.tx_id.prefix = "tx-"
                             /\ DigitsValue(e.tx_id.digits) = n + 1
                             /\ e.human_consent = vca_files[vca_id].consent.user_response
                             /\ e.metadata.consent_timestamp
                                   = vca_files[vca_id].consent.timestamp
                /\ LET r == post_to_ledger(vca_files, ledger_file, vca_id, <<>>, clock)
                   IN /\ r.rc = 1
                      /\ r.outcome = "EOFError"
                      /\ r.ledger = ledger_file)
    /\ [][(last'.op = "post" /\ last'.outcome = "PostedOverride" /\ clock' = clock) =>
            /\ AlreadyPosted(ledger_file, last'.vca_id)
            /\ Len(ledger_file') = Len(ledger_file) + 1
            /\ SubSeq(ledger_file', 1, Len(ledger_file)) = ledger_file
            /\ ledger_file'[Len(ledger_file')].vca_id = last'.vca_id
            /\ ledger_file'[Len(ledger_file')].human_consent
                  = vca_files[last'.vca_id].consent.user_response]_vars
    /\ [][(last'.op = "post" /\ last'.outcome = "EOFError" /\ clock' = clock) =>
            (last'.rc = 1 /\ ledger_file' = ledger_file)]_vars

(* An overridden duplicate post has just appended a second entry for the   *)
(* same VCA, which carries the veto that replaced the approval the first   *)
(* entry records.                                                          *)
C24_Witness ==
    /\ last.op = "post"
    /\ last.outcome = "PostedOverride"
    /\ Len(ledger_file) = 2
    /\ ledger_file[1].vca_id = ledger_file[2].vca_id
    /\ ledger_file[1].human_consent = "y"
    /\ ledger_file[2].human_consent = "n"
    /\ DigitsValue(ledger_file[2].tx_id.digits) = 2

(* Every stage of the toolchain run succeeded and the proof verified *)
Constructs(tool) == tool.witness /\ tool.prove /\ tool.vkey /\ Attested(tool)

(* The ids of the items whose toolchain run constructs a VCA, in the order *)
(* of the items                                                            *)
RECURSIVE ConstructedIds(_, _, _)
ConstructedIds(count, tools, ids) ==
    IF count = 0 THEN <<>>
    ELSE IF Constructs(tools[count])
    THEN Append(ConstructedIds(count - 1, tools, ids), ids[count])
    ELSE ConstructedIds(count - 1, tools, ids)

(* C25: every rollup document is a batch_rollup pending confirmation that  *)
(* lists at least one VCA, each once, with vca_count the number listed;    *)
(* a batch mint of count items, whichever of them fail, writes at most one *)
(* rollup; when at least one item is constructed it returns 0 and the      *)
(* rollup lists exactly the ids of the constructed items in item order,    *)
(* one VCA document written for each and none for a failed item; when none *)
(* is constructed it returns 1 and writes neither a rollup nor a VCA.      *)
C25_RollupListsConstructed ==
    /\ [](\A k \in DOMAIN rollup_files :
            LET rollup == rollup_files[k]
            IN /\ rollup.action = "batch_rollup"
               /\ rollup.status = "pending_confirmation"
               /\ rollup.vca_count = Len(rollup.vca_ids)
               /\ rollup.vca_count >= 1
               /\ \A i, j \in 1..Len(rollup.vca_ids) :
                     i # j => rollup.vca_ids[i] # rollup.vca_ids[j])
    /\ [](\A count \in 0..MaxBatch, base_confidence \in BaseConfidenceArgs :
            count <= Cardinality(VcaIds \ DOMAIN vca_files) =>
                \A tools \in [1..count -> Toolchains], tie_up \in BOOLEAN :
                    LET r == batch_main(vca_files, rollup_files, ledger_file, count,
                                        base_confidence, 9200, tools, clock, tie_up)
                        ids == ConstructedIds(count, tools, FreshIds(DOMAIN vca_files, count))
                    IN /\ DOMAIN r.rollups \subseteq DOMAIN rollup_files \cup {clock}
                       /\ DOMAIN r.files
                             = DOMAIN vca_files \cup {ids[i] : i \in 1..Len(ids)}
                       /\ (ids # <<>> =>
                             /\ r.rc = 0
                             /\ r.rollups[clock].vca_ids = ids
                             /\ r.rollups[clock].vca_count = Len(ids))
                       /\ (ids = <<>> =>
                             /\ r.rc = 1
                             /\ r.rollups = rollup_files
                             /\ r.files = vca_files))
    /\ [][(last'.op = "batch" /\ clock' = clock) =>
            /\ (last'.rc = 1 => rollup_files' = rollup_files /\ vca_files' = vca_files)
            /\ (last'.rc = 0 =>
                  /\ DOMAIN rollup_files' = DOMAIN rollup_files \cup {clock}
                  /\ \A k \in DOMAIN rollup_files \ {clock} :
                        rollup_files'[k] = rollup_files[k]
                  /\ DOMAIN vca_files' \ DOMAIN vca_files
                        = RollupVcaIds(rollup_files'[clock]))]_vars

(* A batch of two has just written its rollup although its first item     *)
(* failed: the rollup lists the second item alone and the first has no VCA *)
(* document.                                                               *)
C25_Witness ==
    /\ last.op = "batch"
    /\ last.rc = 0
    /\ clock \in DOMAIN rollup_files
    /\ rollup_files[clock].vca_ids = <<2>>
    /\ rollup_files[clock].vca_count = 1
    /\ 1 \notin DOMAIN vca_files

(* C26: with VCA documents written by construction only, every VCA         *)
(* document is marked verified, every ledger entry has metadata.verified   *)
(* true and the proof type of the construction, so every executed and      *)
(* every rewarded entry refers to a verified proof; and an entry that is   *)
(* appended copies the flag of the VCA document it was built from.         *)
C26_LedgerEntriesVerified ==
    /\ [](\A id \in DOMAIN vca_files : vca_files[id].zkp.verified = TRUE)
    /\ [](\A i \in 1..Len(ledger_file) :
            LET e == ledger_file[i]
            IN /\ e.metadata.verified = TRUE
               /\ e.metadata.proof_type = "groth16"
               /\ e.vca_id \in DOMAIN vca_files
               /\ ((e.status = "executed" \/ e.vgt_reward > 0) =>
                     vca_files[e.vca_id].zkp.verified = TRUE))
    /\ [][Len(ledger_file') > Len(ledger_file) =>
            LET e == ledger_file'[Len(ledger_file')]
            IN e.metadata.verified = vca_files[e.vca_id].zkp.verified]_vars

(* The ledger holds a rewarded entry for a VCA minted in a batch and a     *)
(* vetoed entry; both are marked verified.                                 *)
C26_Witness ==
    /\ \E i \in 1..Len(ledger_file) :
          /\ ledger_file[i].status = "executed"
          /\ ledger_file[i].vgt_reward = 10
          /\ ledger_file[i].metadata.verified = TRUE
          /\ \E k \in DOMAIN rollup_files :
                ledger_file[i].vca_id \in RollupVcaIds(rollup_files[k])
    /\ \E i \in 1..Len(ledger_file) :
          /\ ledger_file[i].status = "vetoed"
          /\ ledger_file[i].metadata.verified = TRUE

(* C27: on every call of the external verifier, with the proof and public  *)
(* signal files in place, a proof the generator's verification accepts is  *)
(* accepted by the standalone verifier too, which returns 0; the generator *)
(* accepts only on exit status 0 with OK in the output.                    *)
C27_GeneratorImpliesStandalone ==
    /\ \A call \in VerifyCalls :
          (generator_verify_proof(call) /\ call.proof_exists /\ call.public_exists) =>
              /\ call.exit = 0
              /\ Contains(call.stdout, <<"O", "K">>)
              /\ standalone_verify_proof(call)
    /\ (last.op = "verify" =>
          ((last.generator /\ last.call.proof_exists /\ last.call.public_exists) =>
              (last.rc = 0 /\ last.outcome = "valid")))

(* Both verifiers have just accepted a proof on an output that holds OK    *)
(* among other text.                                                       *)
C27_Witness ==
    /\ last.op = "verify"
    /\ last.generator
    /\ last.rc = 0
    /\ last.call.exit = 0
    /\ last.call.stdout = <<"x", "O", "K">>

====
